---- MODULE Spec2Model ----
(***************************************************************************)
(* A model of yubetsu_cite.Publication (src/yubetsu_cite/main.py).         *)
(*                                                                         *)
(* Python str values are TLA+ strings; str operations (split, strip,       *)
(* lower, upper, join, f-string interpolation) are computed character by   *)
(* character.  An Optional[...] value is a tuple: <<>> is None and <<v>>   *)
(* is the value v.  The outcome of a call is a record: either a returned   *)
(* value or the class and message of the exception raised.                 *)
(***************************************************************************)
EXTENDS Integers, Sequences, FiniteSets, TLC

VARIABLES
    pub,       \* the Publication object: None until it is constructed
    pub0,      \* the object as __init__ left it
    ctor_in,   \* the constructor arguments that decide its outcome
    ctor_out,  \* the outcome of the constructor call
    call,      \* the method call that has just returned or raised, None between calls
    result,    \* the outcome of that call
    ncalls     \* the number of method calls made on the object

vars == <<pub, pub0, ctor_in, ctor_out, call, result, ncalls>>

(***************************************************************************)
(* Python values                                                           *)
(***************************************************************************)
None == <<>>

Some(v) == <<v>>

\* bool(x) of an Optional[int]: None and 0 are falsy
TruthyInt(o) == o # None /\ o[1] # 0

\* bool(x) of an Optional[str]: None and "" are falsy
TruthyStr(o) == o # None /\ o[1] # ""

\* f"{x}" of an Optional[int]
FmtInt(o) == IF o = None THEN "None" ELSE ToString(o[1])

\* f"{x}" of an Optional[str]
FmtStr(o) == IF o = None THEN "None" ELSE o[1]

NoExc == "return"

\* a call that returns v
Return(v) == [exc |-> NoExc, value |-> Some(v), msg |-> ""]

\* a call that raises cls(m): no value comes back
Raise(cls, m) == [exc |-> cls, value |-> None, msg |-> m]

(***************************************************************************)
(* str operations                                                          *)
(***************************************************************************)
Char(s, i) == SubSeq(s, i, i)

Whitespace == {" ", "\t", "\n", "\r", "\f"}

UpperLetters == "ABCDEFGHIJKLMNOPQRSTUVWXYZ"

LowerLetters == "abcdefghijklmnopqrstuvwxyz"

\* the letters of one case mapped to the letters of the other
CaseMap(from, to) ==
    [c \in {Char(from, i) : i \in 1..Len(from)} |->
        Char(to, CHOOSE i \in 1..Len(from) : Char(from, i) = c)]

ToLower == CaseMap(UpperLetters, LowerLetters)

ToUpper == CaseMap(LowerLetters, UpperLetters)

\* every character of s in the domain of map replaced by its image
RECURSIVE MapStr(_, _)
MapStr(s, map) ==
    IF s = "" THEN ""
    ELSE (IF Char(s, 1) \in DOMAIN map THEN map[Char(s, 1)] ELSE Char(s, 1))
         \o MapStr(SubSeq(s, 2, Len(s)), map)

\* str.lower()
Lower(s) == MapStr(s, ToLower)

\* str.upper()
Upper(s) == MapStr(s, ToUpper)

RECURSIVE LStrip(_)
LStrip(s) ==
    IF s # "" /\ Char(s, 1) \in Whitespace THEN LStrip(SubSeq(s, 2, Len(s))) ELSE s

RECURSIVE RStrip(_)
RStrip(s) ==
    IF s # "" /\ Char(s, Len(s)) \in Whitespace THEN RStrip(SubSeq(s, 1, Len(s) - 1)) ELSE s

\* str.strip()
Strip(s) == RStrip(LStrip(s))

\* the index of the first character of s at or after i that is (is not, when
\* `space` is FALSE) whitespace; Len(s) + 1 when there is none
RECURSIVE Scan(_, _, _)
Scan(s, i, space) ==
    IF i > Len(s) \/ ((Char(s, i) \in Whitespace) = space) THEN i
    ELSE Scan(s, i + 1, space)

\* re.split(r'\s+', s): the pieces between the maximal runs of whitespace,
\* an empty piece before a leading run and after a trailing one
RECURSIVE ReSplitWs(_)
ReSplitWs(s) ==
    LET i == Scan(s, 1, TRUE)
    IN  IF i > Len(s) THEN <<s>>
        ELSE <<SubSeq(s, 1, i - 1)>> \o ReSplitWs(SubSeq(s, Scan(s, i, FALSE), Len(s)))

\* str.split(): the maximal runs of non-whitespace characters
RECURSIVE Split(_)
Split(s) ==
    LET b == Scan(s, 1, FALSE)
        e == Scan(s, b, TRUE)
    IN  IF b > Len(s) THEN <<>>
        ELSE <<SubSeq(s, b, e - 1)>> \o Split(SubSeq(s, e, Len(s)))

\* the index of the first sep at or after i; Len(s) + 1 when there is none
RECURSIVE Find(_, _, _)
Find(s, i, sep) ==
    IF i > Len(s) \/ Char(s, i) = sep THEN i ELSE Find(s, i + 1, sep)

\* str.split(sep) for a one-character sep
RECURSIVE SplitOn(_, _)
SplitOn(s, sep) ==
    LET i == Find(s, 1, sep)
    IN  IF i > Len(s) THEN <<s>>
        ELSE <<SubSeq(s, 1, i - 1)>> \o SplitOn(SubSeq(s, i + 1, Len(s)), sep)

\* sep.join(parts)
RECURSIVE Join(_, _)
Join(sep, parts) ==
    IF parts = <<>> THEN ""
    ELSE IF Len(parts) = 1 THEN parts[1]
    ELSE parts[1] \o sep \o Join(sep, Tail(parts))

\* seq[:n] for n >= 0
Take(seq, n) == SubSeq(seq, 1, IF n < Len(seq) THEN n ELSE Len(seq))

(***************************************************************************)
(* Publication.__init__                                                    *)
(***************************************************************************)
MONTHS ==
    <<"", "Jan", "Feb", "Mar", "Apr", "May", "Jun",
      "Jul", "Aug", "Sep", "Oct", "Nov", "Dec">>

\* all(authors): no entry is the empty string
AllAuthors(authors) == \A i \in 1..Len(authors) : authors[i] # ""

\* the default citekey taken from the first token of the author, not the last
DefaultCitekey_first_token(authors, year) ==
    LET parts == Split(authors[1])
    IN  IF parts = <<>> THEN Raise("IndexError", "list index out of range")
        ELSE Return(Lower(parts[1]) \o FmtInt(year))

\* f"{authors[0].split()[-1].lower()}{year}"
DefaultCitekey(authors, year) ==
    LET parts == Split(authors[1])
    IN  IF parts = <<>> THEN Raise("IndexError", "list index out of range")
        ELSE Return(Lower(parts[Len(parts)]) \o FmtInt(year))

\* citekey if citekey else <default>
InitCitekey(a) ==
    IF TruthyStr(a.citekey) THEN Return(a.citekey[1])
    ELSE DefaultCitekey(a.authors, a.year)

\* Publication(**a): the record built, or the exception raised
Publication(a) ==
    IF a.authors = <<>> \/ ~AllAuthors(a.authors)
    THEN Raise("CitationError", "Authors are required and cannot be empty.")
    ELSE IF a.title = ""
    THEN Raise("CitationError", "Title is required and cannot be empty.")
    ELSE IF a.journal = ""
    THEN Raise("CitationError", "Journal or container name is required and cannot be empty.")
    ELSE IF ~TruthyInt(a.year)
    THEN Raise("CitationError", "Year is required and cannot be empty.")
    ELSE LET key == InitCitekey(a)
         IN  IF key.exc # NoExc THEN key
             ELSE Return([authors |-> a.authors, year |-> a.year, month |-> a.month,
                          title |-> a.title, journal |-> a.journal,
                          volume |-> a.volume, issue |-> a.issue, pages |-> a.pages,
                          doi |-> a.doi, database |-> a.database,
                          access_date |-> a.access_date, citekey |-> key.value[1],
                          MONTHS |-> MONTHS])

(***************************************************************************)
(* Author formatters                                                       *)
(***************************************************************************)
\* [f(x) for x in xs], where outs[i] is the outcome of f(xs[i]): the list of
\* the values, or the exception of the first call that raises
Collect(outs) ==
    IF \E i \in 1..Len(outs) : outs[i].exc # NoExc
    THEN outs[CHOOSE i \in 1..Len(outs) :
                  outs[i].exc # NoExc /\ \A j \in 1..(i - 1) : outs[j].exc = NoExc]
    ELSE Return([i \in 1..Len(outs) |-> outs[i].value[1]])

\* f"{part[0]}." for part in parts if len(part) > 0
RECURSIVE Initials(_)
Initials(parts) ==
    IF parts = <<>> THEN <<>>
    ELSE (IF Len(parts[1]) > 0 THEN <<Char(parts[1], 1) \o ".">> ELSE <<>>)
         \o Initials(Tail(parts))

\* format_author_apa with the length test off by one: a given name and a
\* family name are not enough
format_author_apa_needs_three(author) ==
    LET name_parts == ReSplitWs(Strip(author))
    IN  IF Len(name_parts) < 3
        THEN Raise("CitationError", "Invalid author format: " \o author)
        ELSE LET last_name == name_parts[Len(name_parts)]
                 initials == Join(" ", Initials(SubSeq(name_parts, 1, Len(name_parts) - 1)))
             IN  Return(last_name \o ", " \o initials)

format_author_apa(author) ==
    LET name_parts == ReSplitWs(Strip(author))
    IN  IF Len(name_parts) < 2
        THEN Raise("CitationError", "Invalid author format: " \o author)
        ELSE LET last_name == name_parts[Len(name_parts)]
                 initials == Join(" ", Initials(SubSeq(name_parts, 1, Len(name_parts) - 1)))
             IN  Return(last_name \o ", " \o initials)

format_authors_apa(self) ==
    LET outs == Collect([i \in 1..Len(self.authors) |-> format_author_apa(self.authors[i])])
        formatted_authors == outs.value[1]
        n == Len(formatted_authors)
    IN  IF outs.exc # NoExc THEN outs
        ELSE IF n = 1 THEN Return(formatted_authors[1])
        ELSE IF n = 2 THEN Return(formatted_authors[1] \o " & " \o formatted_authors[2])
        ELSE IF n <= 20
        THEN Return(Join(", ", SubSeq(formatted_authors, 1, n - 1))
                    \o ", & " \o formatted_authors[n])
        ELSE Return(Join(", ", Take(formatted_authors, 19)) \o ", ... " \o formatted_authors[n])

\* format_author_mla with a branch for the later authors of a list of three
\* or more, which renders them as "Given Family"
format_author_mla_renders_later_authors(author, index, total_authors) ==
    LET name_parts == ReSplitWs(Strip(author))
    IN  IF Len(name_parts) < 2
        THEN Raise("CitationError", "Invalid author format: " \o author)
        ELSE LET first_name == Join(" ", SubSeq(name_parts, 1, Len(name_parts) - 1))
                 last_name == name_parts[Len(name_parts)]
             IN  IF total_authors = 1 THEN Return(Some(last_name \o ", " \o first_name))
                 ELSE IF total_authors = 2
                 THEN IF index = 0 THEN Return(Some(last_name \o ", " \o first_name))
                      ELSE IF index = 1
                      THEN Return(Some("and " \o first_name \o " " \o last_name))
                      ELSE Return(None)
                 ELSE IF total_authors > 2 /\ index = 0
                 THEN Return(Some(last_name \o ", " \o first_name \o " et al."))
                 ELSE Return(Some(first_name \o " " \o last_name))

\* index counts from 0, as enumerate does; the value returned is None when no
\* branch returns
format_author_mla(author, index, total_authors) ==
    LET name_parts == ReSplitWs(Strip(author))
    IN  IF Len(name_parts) < 2
        THEN Raise("CitationError", "Invalid author format: " \o author)
        ELSE LET first_name == Join(" ", SubSeq(name_parts, 1, Len(name_parts) - 1))
                 last_name == name_parts[Len(name_parts)]
             IN  IF total_authors = 1 THEN Return(Some(last_name \o ", " \o first_name))
                 ELSE IF total_authors = 2
                 THEN IF index = 0 THEN Return(Some(last_name \o ", " \o first_name))
                      ELSE IF index = 1
                      THEN Return(Some("and " \o first_name \o " " \o last_name))
                      ELSE Return(None)
                 ELSE IF total_authors > 2 /\ index = 0
                 THEN Return(Some(last_name \o ", " \o first_name \o " et al."))
                 ELSE Return(None)

\* the values of opts that are truthy, in order
RECURSIVE Truthies(_)
Truthies(opts) ==
    IF opts = <<>> THEN <<>>
    ELSE (IF TruthyStr(opts[1]) THEN <<opts[1][1]>> ELSE <<>>) \o Truthies(Tail(opts))

format_authors_mla(self) ==
    LET total_authors == Len(self.authors)
        outs == Collect([i \in 1..total_authors |->
                            format_author_mla(self.authors[i], i - 1, total_authors)])
    IN  IF outs.exc # NoExc THEN outs
        ELSE Return(Join(" ", Truthies(outs.value[1])))

format_author_ama(author) ==
    LET name_parts == ReSplitWs(Strip(author))
    IN  IF Len(name_parts) < 2
        THEN Raise("CitationError", "Invalid author format: " \o author)
        ELSE LET last_name == name_parts[1]
                 first_initial == IF Len(name_parts) > 1 THEN Char(name_parts[2], 1) ELSE ""
                 middle_initial == IF Len(name_parts) > 2 THEN Char(name_parts[3], 1) ELSE ""
             IN  Return(last_name \o " " \o first_initial
                        \o (IF middle_initial # "" THEN middle_initial ELSE ""))

format_authors_ama(self) ==
    LET total_authors == Len(self.authors)
        outs == Collect([i \in 1..total_authors |-> format_author_ama(self.authors[i])])
    IN  IF outs.exc # NoExc THEN outs
        ELSE IF total_authors > 6
        THEN Return(Join(", ", Take(outs.value[1], 3)) \o ", et al.")
        ELSE Return(Join(", ", outs.value[1]))

format_author_nlm(author) ==
    LET name_parts == ReSplitWs(Strip(author))
    IN  IF Len(name_parts) < 2
        THEN Raise("CitationError", "Invalid author format: " \o author)
        ELSE LET last_name == name_parts[1]
                 first_initial == IF Len(name_parts) > 1 THEN Char(name_parts[2], 1) ELSE ""
                 middle_initial == IF Len(name_parts) > 2 THEN Char(name_parts[3], 1) ELSE ""
             IN  Return(last_name \o " " \o first_initial
                        \o (IF middle_initial # "" THEN middle_initial ELSE ""))

format_authors_nlm(self) ==
    LET outs == Collect([i \in 1..Len(self.authors) |-> format_author_nlm(self.authors[i])])
        total_authors == Len(outs.value[1])
    IN  IF outs.exc # NoExc THEN outs
        ELSE IF total_authors > 3
        THEN Return(Join(", ", Take(outs.value[1], 3)) \o ", and others")
        ELSE Return(Join(", ", outs.value[1]))

format_authors_chicago(self) ==
    LET n == Len(self.authors)
    IN  IF n = 0 THEN Raise("CitationError", "No authors provided.")
        ELSE IF n = 1 THEN Return(self.authors[1])
        ELSE IF n = 2 THEN Return(self.authors[1] \o " and " \o self.authors[2])
        ELSE IF n = 3
        THEN Return(Join(", ", SubSeq(self.authors, 1, n - 1)) \o ", and " \o self.authors[n])
        ELSE Return(self.authors[1] \o " et al.")

\* f"{author.split()[0][0]}. {author.split()[-1]}"
format_author_ieee(author) ==
    LET parts == Split(author)
    IN  IF parts = <<>> THEN Raise("IndexError", "list index out of range")
        ELSE Return(Char(parts[1], 1) \o ". " \o parts[Len(parts)])

format_authors_ieee(self, in_text) ==
    LET outs == Collect([i \in 1..Len(self.authors) |-> format_author_ieee(self.authors[i])])
        formatted_authors == outs.value[1]
        n == Len(formatted_authors)
        threshold == IF in_text THEN 3 ELSE 6
    IN  IF outs.exc # NoExc THEN outs
        ELSE IF n >= threshold THEN Return(formatted_authors[1] \o " et al.")
        ELSE Return(Join(", ", SubSeq(formatted_authors, 1, n - 1))
                    \o " and " \o formatted_authors[n])

(***************************************************************************)
(* Citation assemblers                                                     *)
(***************************************************************************)
\* self.MONTHS[self.month] if self.month else ""
month_name(self) ==
    IF ~TruthyInt(self.month) THEN Return("")
    ELSE LET m == self.month[1]
             n == Len(self.MONTHS)
         IN  IF 0 <= m /\ m < n THEN Return(self.MONTHS[m + 1])
             ELSE IF -n <= m /\ m < 0 THEN Return(self.MONTHS[m + n + 1])
             ELSE Raise("IndexError", "list index out of range")

\* the style == 'raw' branch of generate_apa_citation
generate_apa_citation_raw(self) ==
    LET authors == format_authors_apa(self)
    IN  IF authors.exc # NoExc THEN authors
        ELSE Return(authors.value[1] \o " (" \o FmtInt(self.year) \o "). "
                    \o self.title \o ". " \o self.journal
                    \o (IF TruthyInt(self.volume) THEN ", " \o FmtInt(self.volume) ELSE "")
                    \o (IF TruthyInt(self.issue) THEN "(" \o FmtInt(self.issue) \o ")" ELSE "")
                    \o (IF TruthyStr(self.pages) THEN ", " \o FmtStr(self.pages) ELSE "")
                    \o ". https://doi.org/" \o FmtStr(self.doi))

\* the style == 'html' branch of generate_apa_citation
generate_apa_citation_html(self) ==
    LET authors == format_authors_apa(self)
    IN  IF authors.exc # NoExc THEN authors
        ELSE Return(authors.value[1] \o " (" \o FmtInt(self.year) \o "). <i>"
                    \o self.title \o "</i>. <i>" \o self.journal \o "</i>"
                    \o (IF TruthyInt(self.volume)
                        THEN ", <b>" \o FmtInt(self.volume) \o "</b>" ELSE "")
                    \o (IF TruthyInt(self.issue) THEN "(" \o FmtInt(self.issue) \o ")" ELSE "")
                    \o (IF TruthyStr(self.pages) THEN ", " \o FmtStr(self.pages) ELSE "")
                    \o ". <a href='https://doi.org/" \o FmtStr(self.doi)
                    \o "'>https://doi.org/" \o FmtStr(self.doi) \o "</a>")

\* generate_apa_citation with no else branch: any style but 'html' is 'raw'
generate_apa_citation_lenient(self, style) ==
    IF style = "html" THEN generate_apa_citation_html(self)
    ELSE generate_apa_citation_raw(self)

generate_apa_citation(self, style) ==
    IF style = "raw" THEN generate_apa_citation_raw(self)
    ELSE IF style = "html" THEN generate_apa_citation_html(self)
    ELSE Raise("CitationError", "Invalid style type. Use 'raw' or 'html'.")

\* the style == 'raw' branch of generate_mla_citation
generate_mla_citation_raw(self) ==
    LET authors == format_authors_mla(self)
    IN  IF authors.exc # NoExc THEN authors
        ELSE Return(authors.value[1] \o ". \"" \o self.title \o ".\" " \o self.journal
                    \o (IF TruthyInt(self.volume) THEN ", vol. " \o FmtInt(self.volume) ELSE "")
                    \o (IF TruthyInt(self.issue) THEN ", no. " \o FmtInt(self.issue) ELSE "")
                    \o (IF TruthyStr(self.pages) THEN ", pp. " \o FmtStr(self.pages) ELSE "")
                    \o ", " \o FmtInt(self.year) \o "."
                    \o (IF TruthyStr(self.database)
                        THEN " " \o FmtStr(self.database) \o "." ELSE "")
                    \o (IF TruthyStr(self.doi) THEN " doi:" \o FmtStr(self.doi) \o "." ELSE ""))

\* the style == 'html' branch of generate_mla_citation
generate_mla_citation_html(self) ==
    LET authors == format_authors_mla(self)
    IN  IF authors.exc # NoExc THEN authors
        ELSE Return(authors.value[1] \o ". \"<i>" \o self.title \o "</i>.\" <i>"
                    \o self.journal \o "</i>"
                    \o (IF TruthyInt(self.volume) THEN ", vol. " \o FmtInt(self.volume) ELSE "")
                    \o (IF TruthyInt(self.issue) THEN ", no. " \o FmtInt(self.issue) ELSE "")
                    \o (IF TruthyStr(self.pages) THEN ", pp. " \o FmtStr(self.pages) ELSE "")
                    \o ", " \o FmtInt(self.year) \o "."
                    \o (IF TruthyStr(self.database)
                        THEN " <i>" \o FmtStr(self.database) \o "</i>." ELSE "")
                    \o (IF TruthyStr(self.doi)
                        THEN " doi:<a href='https://doi.org/" \o FmtStr(self.doi) \o "'>"
                             \o FmtStr(self.doi) \o "</a>."
                        ELSE ""))

generate_mla_citation(self, style) ==
    IF style = "raw" THEN generate_mla_citation_raw(self)
    ELSE IF style = "html" THEN generate_mla_citation_html(self)
    ELSE Raise("CitationError", "Invalid style type. Use 'raw' or 'html'.")

\* the style == 'raw' branch of generate_ama_citation
generate_ama_citation_raw(self) ==
    LET authors == format_authors_ama(self)
    IN  IF authors.exc # NoExc THEN authors
        ELSE Return(authors.value[1] \o ". " \o self.title \o ". " \o self.journal
                    \o ". " \o FmtInt(self.year) \o ";"
                    \o (IF TruthyInt(self.volume) THEN FmtInt(self.volume) ELSE "")
                    \o (IF TruthyInt(self.issue) THEN "(" \o FmtInt(self.issue) \o ")" ELSE "")
                    \o (IF TruthyStr(self.pages) THEN ":" \o FmtStr(self.pages) \o "." ELSE "")
                    \o (IF TruthyStr(self.doi) THEN " doi:" \o FmtStr(self.doi) \o "." ELSE ""))

\* the style == 'html' branch of generate_ama_citation
generate_ama_citation_html(self) ==
    LET authors == format_authors_ama(self)
    IN  IF authors.exc # NoExc THEN authors
        ELSE Return(authors.value[1] \o ". <i>" \o self.title \o "</i>. <i>"
                    \o self.journal \o "</i>. " \o FmtInt(self.year) \o ";"
                    \o (IF TruthyInt(self.volume) THEN " " \o FmtInt(self.volume) ELSE "")
                    \o (IF TruthyInt(self.issue) THEN "(" \o FmtInt(self.issue) \o ")" ELSE "")
                    \o (IF TruthyStr(self.pages) THEN ":" \o FmtStr(self.pages) \o "." ELSE "")
                    \o (IF TruthyStr(self.doi)
                        THEN " doi:<a href='https://doi.org/" \o FmtStr(self.doi) \o "'>"
                             \o FmtStr(self.doi) \o "</a>."
                        ELSE ""))

generate_ama_citation(self, style) ==
    IF style = "raw" THEN generate_ama_citation_raw(self)
    ELSE IF style = "html" THEN generate_ama_citation_html(self)
    ELSE Raise("CitationError", "Invalid style type. Use 'raw' or 'html'.")

\* f" {self.year} {month_name};" if month_name else f" {self.year};"
nlm_date(self, name) ==
    IF name # "" THEN " " \o FmtInt(self.year) \o " " \o name \o ";"
    ELSE " " \o FmtInt(self.year) \o ";"

generate_raw_nlm_citation(self) ==
    LET authors == format_authors_nlm(self)
        name == month_name(self)
    IN  IF authors.exc # NoExc THEN authors
        ELSE IF name.exc # NoExc THEN name
        ELSE Return(authors.value[1] \o ". " \o self.title \o ". " \o self.journal \o "."
                    \o nlm_date(self, name.value[1])
                    \o (IF TruthyInt(self.volume) THEN FmtInt(self.volume) ELSE "")
                    \o (IF TruthyInt(self.issue) THEN "(" \o FmtInt(self.issue) \o ")" ELSE "")
                    \o (IF TruthyStr(self.pages) THEN ":" \o FmtStr(self.pages) ELSE "")
                    \o (IF TruthyStr(self.doi) THEN ". doi:" \o FmtStr(self.doi) \o "." ELSE ""))

generate_html_nlm_citation(self) ==
    LET authors == format_authors_nlm(self)
        name == month_name(self)
    IN  IF authors.exc # NoExc THEN authors
        ELSE IF name.exc # NoExc THEN name
        ELSE Return(authors.value[1] \o ". " \o self.title \o ". " \o self.journal \o "."
                    \o nlm_date(self, name.value[1])
                    \o (IF TruthyInt(self.volume) THEN FmtInt(self.volume) ELSE "")
                    \o (IF TruthyInt(self.issue) THEN "(" \o FmtInt(self.issue) \o ")" ELSE "")
                    \o (IF TruthyStr(self.pages) THEN ":" \o FmtStr(self.pages) ELSE "")
                    \o (IF TruthyStr(self.doi)
                        THEN ". doi:<a href='https://doi.org/" \o FmtStr(self.doi) \o "'>"
                             \o FmtStr(self.doi) \o "</a>."
                        ELSE ""))

\* f" ({month_name} {self.year})" if month_name else f" ({self.year})"
chicago_month_part(self, name) ==
    IF name # "" THEN " (" \o name \o " " \o FmtInt(self.year) \o ")"
    ELSE " (" \o FmtInt(self.year) \o ")"

generate_raw_chicago_citation(self) ==
    LET authors == format_authors_chicago(self)
        name == month_name(self)
    IN  IF authors.exc # NoExc THEN authors
        ELSE IF name.exc # NoExc THEN name
        ELSE Return(authors.value[1] \o ". \"" \o self.title \o ".\" " \o self.journal
                    \o " " \o FmtInt(self.volume) \o ", no. " \o FmtInt(self.issue)
                    \o chicago_month_part(self, name.value[1])
                    \o ": " \o FmtStr(self.pages) \o "."
                    \o (IF TruthyStr(self.doi)
                        THEN " https://doi.org/" \o FmtStr(self.doi) \o "." ELSE ""))

generate_html_chicago_citation(self) ==
    LET authors == format_authors_chicago(self)
        name == month_name(self)
    IN  IF authors.exc # NoExc THEN authors
        ELSE IF name.exc # NoExc THEN name
        ELSE Return(authors.value[1] \o ". \"<i>" \o self.title \o "</i>.\" <i>"
                    \o self.journal \o "</i>"
                    \o " " \o FmtInt(self.volume) \o ", no. " \o FmtInt(self.issue)
                    \o chicago_month_part(self, name.value[1])
                    \o ": " \o FmtStr(self.pages) \o "."
                    \o (IF TruthyStr(self.doi)
                        THEN " <a href='https://doi.org/" \o FmtStr(self.doi)
                             \o "'>https://doi.org/" \o FmtStr(self.doi) \o "</a>."
                        ELSE ""))

generate_raw_ieee_citation(self) ==
    LET authors == format_authors_ieee(self, FALSE)
    IN  IF authors.exc # NoExc THEN authors
        ELSE Return(authors.value[1] \o ", \"" \o self.title \o ",\" " \o self.journal
                    \o ", vol. " \o FmtInt(self.volume) \o ", no. " \o FmtInt(self.issue)
                    \o ", pp. " \o FmtStr(self.pages) \o ", " \o FmtInt(self.year) \o "."
                    \o (IF TruthyStr(self.doi) THEN " doi: " \o FmtStr(self.doi) \o "." ELSE ""))

generate_html_ieee_citation(self) ==
    LET authors == format_authors_ieee(self, FALSE)
    IN  IF authors.exc # NoExc THEN authors
        ELSE Return(authors.value[1] \o ", \"<i>" \o self.title \o "</i>,\" <i>"
                    \o self.journal \o "</i>"
                    \o ", vol. " \o FmtInt(self.volume) \o ", no. " \o FmtInt(self.issue)
                    \o ", pp. " \o FmtStr(self.pages) \o ", " \o FmtInt(self.year) \o "."
                    \o (IF TruthyStr(self.doi)
                        THEN " doi: <a href='https://doi.org/" \o FmtStr(self.doi) \o "'>"
                             \o FmtStr(self.doi) \o "</a>."
                        ELSE ""))

\* bibtex_pages splitting at the first hyphen only
bibtex_pages_first_hyphen(self) ==
    LET i == Find(self.pages[1], 1, "-")
    IN  IF i > Len(self.pages[1]) THEN self.pages[1]
        ELSE SubSeq(self.pages[1], 1, i - 1) \o "--"
             \o SubSeq(self.pages[1], i + 1, Len(self.pages[1]))

\* "--".join(self.pages.split("-"))
bibtex_pages(self) == Join("--", SplitOn(self.pages[1], "-"))

generate_bibtex(self) ==
    LET entry_type == "article"
        authors_bibtex == Join(" and ", self.authors)
    IN  Return("@" \o entry_type \o "{" \o self.citekey \o ",\n"
               \o "  author = {" \o authors_bibtex \o "},\n"
               \o "  title = {" \o self.title \o "},\n"
               \o "  journal = {" \o self.journal \o "},\n"
               \o "  year = {" \o FmtInt(self.year) \o "},\n"
               \o (IF TruthyInt(self.volume)
                   THEN "  volume = {" \o FmtInt(self.volume) \o "},\n" ELSE "")
               \o (IF TruthyInt(self.issue)
                   THEN "  number = {" \o FmtInt(self.issue) \o "},\n" ELSE "")
               \o (IF TruthyStr(self.pages)
                   THEN "  pages = {" \o bibtex_pages(self) \o "},\n" ELSE "")
               \o (IF TruthyStr(self.doi)
                   THEN "  doi = {" \o FmtStr(self.doi) \o "},\n" ELSE "")
               \o "}")

(***************************************************************************)
(* Dispatcher                                                              *)
(***************************************************************************)
generate_citation(self, format_type, style) ==
    LET ft == Upper(format_type)
    IN  IF ft = "APA" THEN generate_apa_citation(self, style)
        ELSE IF ft = "MLA" THEN generate_mla_citation(self, style)
        ELSE IF ft = "AMA" THEN generate_ama_citation(self, style)
        ELSE IF Upper(ft) = "NLM"
        THEN IF style = "raw" THEN generate_raw_nlm_citation(self)
             ELSE IF style = "html" THEN generate_html_nlm_citation(self)
             ELSE Raise("UnsupportedFormatError", style \o " style is not supported.")
        ELSE IF Upper(ft) = "CHICAGO"
        THEN IF style = "raw" THEN generate_raw_chicago_citation(self)
             ELSE IF style = "html" THEN generate_html_chicago_citation(self)
             ELSE Raise("UnsupportedFormatError", style \o " style is not supported.")
        ELSE IF Upper(ft) = "IEEE"
        THEN IF style = "raw" THEN generate_raw_ieee_citation(self)
             ELSE IF style = "html" THEN generate_html_ieee_citation(self)
             ELSE Raise("UnsupportedFormatError", style \o " style is not supported.")
        ELSE IF Upper(ft) = "BIBTEX" THEN generate_bibtex(self)
        ELSE Raise("UnsupportedFormatError", ft \o " format is not supported.")

\* generate_bibtex keeping the pages it has rewritten in self.pages
self_after_bibtex_stores_pages(self, format_type, style) ==
    IF Upper(format_type) = "BIBTEX" /\ TruthyStr(self.pages)
    THEN [self EXCEPT !.pages = Some(bibtex_pages(self))]
    ELSE self

\* the record after a call of generate_citation: no method called from it
\* assigns to an attribute of self
self_after_generate_citation(self, format_type, style) == self

\* the record after a call of an author formatter: none assigns to self
self_after_format_authors(self, style) == self

(***************************************************************************)
(* Inputs                                                                  *)
(***************************************************************************)
\* every list of at most MaxAuthors of AuthorNames is tried
MaxAuthors == 3

AuthorNames == {"", " ", "Madonna", "John Doe"}

FullNames == <<"John Doe", "Jane Q Smith", " Alice  Johnson ">>

\* n well-formed authors
LongAuthors(n) == [i \in 1..n |-> FullNames[((i - 1) % Len(FullNames)) + 1]]

\* lists of the lengths on both sides of the cut-offs of the list-join rules
LongSizes == {3, 4, 7, 21}

\* n well-formed authors, the list starting at the k-th full name after the first
ShiftedAuthors(k, n) == [i \in 1..n |-> FullNames[((i - 1 + k) % Len(FullNames)) + 1]]

\* lists of three and more authors whose first author is each of the full names
ShiftedSizes == {3, 4}

AuthorLists ==
    UNION {[1..n -> AuthorNames] : n \in 0..MaxAuthors}
        \cup {LongAuthors(n) : n \in LongSizes}
        \cup {ShiftedAuthors(k, n) : k \in 1..(Len(FullNames) - 1), n \in ShiftedSizes}

Years == {None, Some(0), Some(2024)}

Months == {None, Some(12), Some(13)}

Titles == {"", "A Study"}

Journals == {"", "Journal of Studies"}

Volumes == {None, Some(0), Some(34)}

Issues == {None, Some(2)}

PagesValues == {None, Some("123-145"), Some("e1-e2-e3")}

Dois == {None, Some("10.1000/j.jis")}

Databases == {None, Some("JSTOR")}

AccessDates == {Some("2024-09-30")}

Citekeys == {None, Some(""), Some("Key1")}

\* the optional fields of the body of a citation, none given or all given
BareOrFull ==
    {[volume |-> None, issue |-> None, pages |-> None, doi |-> None, database |-> None],
     [volume |-> Some(34), issue |-> Some(2), pages |-> Some("123-145"),
      doi |-> Some("10.1000/j.jis"), database |-> Some("JSTOR")]}

\* every author list, with none or all of the optional fields
AuthorArgs ==
    {[authors |-> l, year |-> y, month |-> m, title |-> t, journal |-> j,
      volume |-> f.volume, issue |-> f.issue, pages |-> f.pages, doi |-> f.doi,
      database |-> f.database, access_date |-> d, citekey |-> k] :
        l \in AuthorLists, y \in Years, m \in Months, t \in Titles, j \in Journals,
        f \in BareOrFull, d \in AccessDates, k \in Citekeys}

\* every combination of the optional fields, with one author and with three
FieldArgs ==
    [authors : {LongAuthors(1), LongAuthors(3)}, year : Years, month : Months,
     title : Titles, journal : Journals, volume : Volumes, issue : Issues,
     pages : PagesValues, doi : Dois, database : Databases,
     access_date : AccessDates, citekey : Citekeys]

CtorArgs == AuthorArgs \cup FieldArgs

\* at most MaxCalls method calls are made on an object
MaxCalls == 2

\* format_type is matched after upper(); ACS is a style the class does not know
FormatTypes == {"apa", "MLA", "AMA", "NLM", "Chicago", "IEEE", "BIBTEX", "ACS"}

Styles == {"raw", "html", "latex"}

AuthorStyles == {"APA", "MLA", "AMA", "NLM", "CHICAGO", "IEEE"}

\* the author formatter of a style, called on its own
format_authors(self, style, in_text) ==
    CASE style = "APA" -> format_authors_apa(self)
      [] style = "MLA" -> format_authors_mla(self)
      [] style = "AMA" -> format_authors_ama(self)
      [] style = "NLM" -> format_authors_nlm(self)
      [] style = "CHICAGO" -> format_authors_chicago(self)
      [] style = "IEEE" -> format_authors_ieee(self, in_text)

\* the arguments the constructor's checks and its default citekey read
Decisive(a) ==
    [authors |-> a.authors, year |-> a.year, title |-> a.title,
     journal |-> a.journal, citekey |-> a.citekey]

(***************************************************************************)
(* The state machine                                                       *)
(***************************************************************************)
Init ==
    /\ pub = None
    /\ pub0 = None
    /\ ctor_in = None
    /\ ctor_out = None
    /\ call = None
    /\ result = None
    /\ ncalls = 0

\* pub = Publication(**a), for any arguments a
Construct ==
    /\ ctor_out = None
    /\ \E a \in CtorArgs :
          LET r == Publication(a)
          IN  /\ pub' = r.value
              /\ pub0' = r.value
              /\ ctor_in' = Some(Decisive(a))
              /\ ctor_out' = Some([exc |-> r.exc, msg |-> r.msg])
    /\ UNCHANGED <<call, result, ncalls>>

\* pub.generate_citation(format_type, style), for any format_type and style
GenerateCitation ==
    /\ pub # None
    /\ call = None
    /\ ncalls < MaxCalls
    /\ \E format_type \in FormatTypes, style \in Styles :
          /\ result' = Some(generate_citation(pub[1], format_type, style))
          /\ call' = Some([method |-> "generate_citation", format_type |-> format_type,
                           style |-> style, in_text |-> FALSE])
          /\ pub' = Some(self_after_generate_citation(pub[1], format_type, style))
    /\ ncalls' = ncalls + 1
    /\ UNCHANGED <<pub0, ctor_in, ctor_out>>

\* pub.format_authors_<style>(), for any of the six author formatters
FormatAuthors ==
    /\ pub # None
    /\ call = None
    /\ ncalls < MaxCalls
    /\ \E style \in AuthorStyles, in_text \in BOOLEAN :
          /\ style # "IEEE" => ~in_text
          /\ result' = Some(format_authors(pub[1], style, in_text))
          /\ call' = Some([method |-> "format_authors", format_type |-> style,
                           style |-> "", in_text |-> in_text])
          /\ pub' = Some(self_after_format_authors(pub[1], style))
    /\ ncalls' = ncalls + 1
    /\ UNCHANGED <<pub0, ctor_in, ctor_out>>

\* the caller takes the outcome of the call; the object stays for the next call
Resume ==
    /\ call # None
    /\ call' = None
    /\ result' = None
    /\ UNCHANGED <<pub, pub0, ctor_in, ctor_out, ncalls>>

Next ==
    \/ Construct
    \/ GenerateCitation
    \/ FormatAuthors
    \/ Resume

Spec == Init /\ [][Next]_vars

(***************************************************************************)
(* Vocabulary of the properties                                            *)
(***************************************************************************)
\* pat occurs in s
Contains(s, pat) ==
    \E i \in 1..(Len(s) - Len(pat) + 1) : SubSeq(s, i, i + Len(pat) - 1) = pat

StartsWith(s, pat) == Len(pat) <= Len(s) /\ SubSeq(s, 1, Len(pat)) = pat

\* the number of maximal runs of non-whitespace characters of s
TokenCount(s) ==
    Cardinality({i \in 1..Len(s) :
        /\ Char(s, i) \notin Whitespace
        /\ (i = 1 \/ Char(s, i - 1) \in Whitespace)})

\* every author of the record has a given name and a family name
WellFormedAuthors(self) == \A i \in 1..Len(self.authors) : TokenCount(self.authors[i]) >= 2

\* month is absent or a month of the year
MonthInRange(self) == self.month = None \/ self.month[1] \in 1..12

\* a call of generate_citation has just returned or raised
Generated == call # None /\ call[1].method = "generate_citation"

\* a call of an author formatter has just returned or raised
Formatted == call # None /\ call[1].method = "format_authors"

\* the format a call of generate_citation asked for, as the dispatcher reads it
Format == Upper(call[1].format_type)

SixStyles == {"APA", "MLA", "AMA", "NLM", "CHICAGO", "IEEE"}

Encodings == {"raw", "html"}

\* the call has returned a string
Returned == result # None /\ result[1].exc = NoExc

\* the string the call returned
Text == result[1].value[1]

(***************************************************************************)
(* C1: generate_citation never raises                                      *)
(***************************************************************************)
\* C1, as claimed: on every record the constructor accepts, generate_citation
\* returns a string for each of the six styles with "raw" and with "html",
\* and for BIBTEX.
C1_AcceptedRecordNeverRaises ==
    (Generated /\ ((Format \in SixStyles /\ call[1].style \in Encodings) \/ Format = "BIBTEX"))
        => Returned

\* C1, amended: on every accepted record whose authors each have at least two
\* whitespace-separated tokens and whose month is None or in 1..12,
\* generate_citation returns a string for each of the six styles with "raw"
\* and with "html", and for BIBTEX.
C1_WellFormedRecordNeverRaises ==
    (/\ Generated
     /\ (Format \in SixStyles /\ call[1].style \in Encodings) \/ Format = "BIBTEX"
     /\ WellFormedAuthors(pub0[1])
     /\ MonthInRange(pub0[1]))
        => Returned

\* a three-author record with month 12 has been rendered as NLM html
C1_Witness ==
    /\ Generated /\ Format = "NLM" /\ call[1].style = "html"
    /\ Len(pub0[1].authors) = 3 /\ WellFormedAuthors(pub0[1])
    /\ pub0[1].month = Some(12)
    /\ Returned /\ Contains(Text, "Dec")

(***************************************************************************)
(* C2: the constructor fails with CitationError only                       *)
(***************************************************************************)
\* C2: construction fails with the validation error (CitationError) and
\* yields no record when authors is empty or has an empty entry, or title or
\* journal is empty, or year is None or 0; on every other input it yields a
\* record or fails with the validation error, never with another error.
C2_CtorValidationErrorOnly ==
    ctor_out # None =>
        /\ (\/ ctor_in[1].authors = <<>>
            \/ \E i \in 1..Len(ctor_in[1].authors) : ctor_in[1].authors[i] = ""
            \/ ctor_in[1].title = ""
            \/ ctor_in[1].journal = ""
            \/ ctor_in[1].year \in {None, Some(0)})
                => (ctor_out[1].exc = "CitationError" /\ pub0 = None)
        /\ ctor_out[1].exc \in {NoExc, "CitationError"}
        /\ (ctor_out[1].exc = NoExc) <=> (pub0 # None)

(***************************************************************************)
(* C3: the errors of an unknown encoding                                   *)
(***************************************************************************)
\* the style of the call is neither 'raw' nor 'html'
OtherEncoding == Generated /\ call[1].style \notin Encodings

\* what generate_citation raises for a format_type it does not know
UnknownFormat == generate_citation(pub0[1], "ACS", call[1].style)

\* C3, as claimed: an encoding other than "raw" and "html" fails with the
\* validation error for APA, MLA and AMA, and for NLM, CHICAGO and IEEE with
\* an error of a kind other than the one raised for an unknown format_type;
\* BIBTEX accepts any encoding and returns the same entry.
C3_EncodingErrorKindDistinct ==
    /\ (OtherEncoding /\ Format \in {"APA", "MLA", "AMA"})
           => result[1].exc = "CitationError"
    /\ (OtherEncoding /\ Format \in {"NLM", "CHICAGO", "IEEE"})
           => (result[1].exc \notin {NoExc, "CitationError"}
               /\ result[1].exc # UnknownFormat.exc)
    /\ (Generated /\ Format = "BIBTEX")
           => (Returned /\ result[1] = generate_citation(pub0[1], "BIBTEX", "raw"))

\* C3, amended: an encoding other than "raw" and "html" fails with
\* CitationError for APA, MLA and AMA, and for NLM, CHICAGO and IEEE with
\* UnsupportedFormatError, the class also raised for an unknown format_type,
\* from which it differs by its message only ("<style> style is not
\* supported." against "<FORMAT> format is not supported."); BIBTEX accepts
\* any encoding and returns the same entry.
C3_EncodingErrorByMessage ==
    /\ (OtherEncoding /\ Format \in {"APA", "MLA", "AMA"})
           => result[1].exc = "CitationError"
    /\ (OtherEncoding /\ Format \in {"NLM", "CHICAGO", "IEEE"})
           => /\ result[1].exc = "UnsupportedFormatError"
              /\ result[1].exc = UnknownFormat.exc
              /\ result[1].msg = call[1].style \o " style is not supported."
              /\ UnknownFormat.msg = "ACS format is not supported."
              /\ result[1].msg # UnknownFormat.msg
    /\ (Generated /\ Format = "BIBTEX")
           => (Returned /\ result[1] = generate_citation(pub0[1], "BIBTEX", "raw"))

\* NLM has been asked for the encoding "latex"
C3_Witness ==
    /\ OtherEncoding /\ Format = "NLM"
    /\ result[1].exc = "UnsupportedFormatError"
    /\ result[1].msg = "latex style is not supported."

(***************************************************************************)
(* C4: an absent optional field leaves no trace                            *)
(***************************************************************************)
\* C4: in APA, MLA, AMA, NLM and IEEE, with either encoding, an optional
\* field that is absent from the record puts nothing in the citation: not
\* the placeholder "None", and not the label of the field ("doi" before a
\* DOI, "vol. ", "no. ", "pp. ").
C4_AbsentFieldOmitted ==
    (Generated /\ Format \in {"APA", "MLA", "AMA", "NLM", "IEEE"}
        /\ call[1].style \in Encodings /\ Returned)
        => /\ ~Contains(Text, "None")
           /\ pub0[1].doi = None => ~Contains(Text, "doi")
           /\ pub0[1].volume = None => ~Contains(Text, "vol. ")
           /\ pub0[1].issue = None => ~Contains(Text, "no. ")
           /\ pub0[1].pages = None => ~Contains(Text, "pp. ")

(***************************************************************************)
(* C5: markup in the html encoding, none in the raw encoding               *)
(***************************************************************************)
\* C5: for each of the six styles, the "html" citation has the title in
\* italics, the journal in italics and a DOI that is rendered inside an
\* anchor to https://doi.org/{doi}; the "raw" citation has no markup.
C5_HtmlMarkup ==
    (Generated /\ Format \in SixStyles /\ Returned)
        => /\ call[1].style = "html"
                => /\ Contains(Text, "<i>" \o pub0[1].title \o "</i>")
                   /\ Contains(Text, "<i>" \o pub0[1].journal \o "</i>")
                   /\ TruthyStr(pub0[1].doi)
                        => Contains(Text, "<a href='https://doi.org/" \o pub0[1].doi[1] \o "'>")
           /\ call[1].style = "raw"
                => (~Contains(Text, "<") /\ ~Contains(Text, ">"))

(***************************************************************************)
(* C6: the layout of an AMA citation                                       *)
(***************************************************************************)
\* s without its markup, the elements <...>
RECURSIVE StripTags(_)
StripTags(s) ==
    LET open == Find(s, 1, "<")
        close == Find(s, open, ">")
    IN  IF open > Len(s) \/ close > Len(s) THEN s
        ELSE SubSeq(s, 1, open - 1) \o StripTags(SubSeq(s, close + 1, Len(s)))

\* Authors. Title. Journal. Year;[Volume][(Issue)][:Pages].[ doi:DOI.]
AmaLayout(self) ==
    format_authors_ama(self).value[1] \o ". " \o self.title \o ". " \o self.journal
        \o ". " \o ToString(self.year[1]) \o ";"
        \o (IF TruthyInt(self.volume) THEN ToString(self.volume[1]) ELSE "")
        \o (IF TruthyInt(self.issue) THEN "(" \o ToString(self.issue[1]) \o ")" ELSE "")
        \o (IF TruthyStr(self.pages) THEN ":" \o self.pages[1] ELSE "")
        \o "."
        \o (IF TruthyStr(self.doi) THEN " doi:" \o self.doi[1] \o "." ELSE "")

\* C6: with either encoding, the AMA citation without its markup is
\* Authors. Title. Journal. Year;[Volume][(Issue)][:Pages].[ doi:DOI.]: the
\* two encodings differ by markup only, and the full stop after the
\* volume/issue/pages group is there with or without pages.
C6_AmaLayout ==
    (Generated /\ Format = "AMA" /\ call[1].style \in Encodings /\ Returned)
        => StripTags(Text) = AmaLayout(pub0[1])

(***************************************************************************)
(* C7: the citekey                                                         *)
(***************************************************************************)
\* low is up with every upper-case letter replaced by its lower-case letter
IsLowerOf(low, up) ==
    /\ Len(low) = Len(up)
    /\ \A p \in 1..Len(up) :
          IF \E n \in 1..Len(UpperLetters) : Char(UpperLetters, n) = Char(up, p)
          THEN \E n \in 1..Len(UpperLetters) :
                  Char(UpperLetters, n) = Char(up, p) /\ Char(LowerLetters, n) = Char(low, p)
          ELSE Char(low, p) = Char(up, p)

\* s[i..j] is the last whitespace-separated token of s
IsLastToken(s, i, j) ==
    /\ 1 <= i /\ i <= j /\ j <= Len(s)
    /\ \A p \in i..j : Char(s, p) \notin Whitespace
    /\ \A p \in (j + 1)..Len(s) : Char(s, p) \in Whitespace
    /\ i = 1 \/ Char(s, i - 1) \in Whitespace

\* key is the lower-case last token of author followed by the decimal year
IsDefaultCitekey(key, author, year) ==
    \E i, j \in 1..Len(author) :
        /\ IsLastToken(author, i, j)
        /\ Len(key) > j - i + 1
        /\ IsLowerOf(SubSeq(key, 1, j - i + 1), SubSeq(author, i, j))
        /\ SubSeq(key, j - i + 2, Len(key)) = ToString(year)

\* C7: a record constructed with no citekey (None or empty) has the citekey
\* lowercase(last whitespace-separated token of authors[0]) + str(year); a
\* non-empty citekey is kept as given; and the BibTeX entry has the record's
\* citekey as its key.
C7_Citekey ==
    pub0 # None =>
        /\ IF TruthyStr(ctor_in[1].citekey)
           THEN pub0[1].citekey = ctor_in[1].citekey[1]
           ELSE IsDefaultCitekey(pub0[1].citekey, ctor_in[1].authors[1], ctor_in[1].year[1])
        /\ (Generated /\ Format = "BIBTEX")
               => (Returned /\ StartsWith(Text, "@article{" \o pub0[1].citekey \o ",\n"))

\* a record built from "John Doe" and no citekey has been rendered as BibTeX
C7_Witness ==
    /\ Generated /\ Format = "BIBTEX" /\ Returned
    /\ ctor_in[1].citekey = None
    /\ ctor_in[1].authors[1] = "John Doe"
    /\ pub0[1].citekey = "doe2024"
    /\ StartsWith(Text, "@article{doe2024,")

(***************************************************************************)
(* C8: the BibTeX entry                                                    *)
(***************************************************************************)
\* the authors joined with " and ", built from the last author backwards
RECURSIVE AndJoined(_)
AndJoined(authors) ==
    IF Len(authors) = 1 THEN authors[1]
    ELSE AndJoined(SubSeq(authors, 1, Len(authors) - 1)) \o " and " \o authors[Len(authors)]

\* s with each hyphen doubled
RECURSIVE HyphensDoubled(_)
HyphensDoubled(s) ==
    IF s = "" THEN ""
    ELSE (IF Char(s, 1) = "-" THEN "--" ELSE Char(s, 1)) \o HyphensDoubled(SubSeq(s, 2, Len(s)))

\* the lines of the entry
Lines == SplitOn(Text, "\n")

\* the lines that set this field
FieldLines(lines, field) ==
    {k \in 1..Len(lines) : StartsWith(lines[k], "  " \o field \o " = {")}

\* C8: the BibTeX entry has the lines of author (the author strings as given,
\* joined with " and "), title, journal and year, and has a volume, number,
\* pages or doi line exactly when the record has the field (a field that is
\* None, 0 or empty counts as not there); the pages line has every hyphen of
\* pages replaced by "--".
C8_BibtexFields ==
    (Generated /\ Format = "BIBTEX") =>
        /\ Returned
        /\ LET lines == Lines
               self == pub0[1]
               \* the field is set on line k, to value
               Sets(field, k, value) ==
                   /\ FieldLines(lines, field) = {k}
                   /\ lines[k] = "  " \o field \o " = {" \o value \o "},"
               \* the field is set, to value, on one of the lines after the year
               SetsLater(field, value) ==
                   \E k \in 6..(Len(lines) - 1) : Sets(field, k, value)
           IN  /\ Sets("author", 2, AndJoined(self.authors))
               /\ Sets("title", 3, self.title)
               /\ Sets("journal", 4, self.journal)
               /\ Sets("year", 5, ToString(self.year[1]))
               /\ IF TruthyInt(self.volume)
                  THEN SetsLater("volume", ToString(self.volume[1]))
                  ELSE FieldLines(lines, "volume") = {}
               /\ IF TruthyInt(self.issue)
                  THEN SetsLater("number", ToString(self.issue[1]))
                  ELSE FieldLines(lines, "number") = {}
               /\ IF TruthyStr(self.pages)
                  THEN SetsLater("pages", HyphensDoubled(self.pages[1]))
                  ELSE FieldLines(lines, "pages") = {}
               /\ IF TruthyStr(self.doi)
                  THEN SetsLater("doi", self.doi[1])
                  ELSE FieldLines(lines, "doi") = {}

\* a record of three authors with pages "123-145" and no volume has been
\* rendered as BibTeX
C8_Witness ==
    /\ Generated /\ Format = "BIBTEX" /\ Returned
    /\ Len(pub0[1].authors) = 3
    /\ pub0[1].pages = Some("123-145") /\ pub0[1].volume = None
    /\ Contains(Text, "  pages = {123--145},\n")
    /\ ~Contains(Text, "volume")

(***************************************************************************)
(* C9: calls leave the record as it was                                    *)
(***************************************************************************)
\* the outcome of the call c on the record self
Invoke(self, c) ==
    IF c.method = "generate_citation" THEN generate_citation(self, c.format_type, c.style)
    ELSE format_authors(self, c.format_type, c.in_text)

\* C9: after any sequence of calls, whether they return or raise, every field
\* of the record has the value the constructor gave it; a call has the
\* outcome the same call has on the record as constructed, whatever calls
\* came before it; and a call that raises returns no string.
C9_RecordUnchanged ==
    /\ pub = pub0
    /\ call # None => result[1] = Invoke(pub0[1], call[1])
    /\ (result # None /\ result[1].exc # NoExc) => result[1].value = None

\* the BibTeX entry of a record with pages has been generated by the second
\* call made on the record
C9_Witness ==
    /\ ncalls = 2
    /\ Generated /\ Format = "BIBTEX" /\ Returned
    /\ TruthyStr(pub0[1].pages)
    /\ pub = pub0

(***************************************************************************)
(* C10: an author with fewer than two tokens                               *)
(***************************************************************************)
\* some author of the record has fewer than two whitespace-separated tokens
HasShortAuthor(self) == \E i \in 1..Len(self.authors) : TokenCount(self.authors[i]) < 2

\* C10: the author formatters of APA, MLA, AMA, NLM and IEEE fail with the
\* name-format error (the CitationError "Invalid author format") and return
\* no string when an author has fewer than two whitespace-separated tokens;
\* the Chicago formatter accepts such an author.
C10_ShortAuthorRejected ==
    (Formatted /\ HasShortAuthor(pub0[1])) =>
        IF call[1].format_type = "CHICAGO" THEN Returned
        ELSE /\ result[1].exc = "CitationError"
             /\ StartsWith(result[1].msg, "Invalid author format")
             /\ result[1].value = None

(***************************************************************************)
(* C11: MLA with three or more authors                                     *)
(***************************************************************************)
\* a call for the MLA author segment of a record of three or more authors
MlaOfThreeOrMore ==
    /\ Formatted /\ call[1].format_type = "MLA"
    /\ Len(pub0[1].authors) >= 3

\* a call for the MLA citation of a record of three or more authors, in one
\* of the two encodings
MlaCitationOfThreeOrMore ==
    /\ Generated /\ Format = "MLA" /\ call[1].style \in Encodings
    /\ Len(pub0[1].authors) >= 3

\* "Family, Given et al.": Family the last token of the author, Given the
\* tokens before it, separated by single spaces
FamilyGivenEtAl(author) ==
    LET tokens == Split(author)
    IN  tokens[Len(tokens)] \o ", " \o Join(" ", SubSeq(tokens, 1, Len(tokens) - 1))
            \o " et al."

\* the claim as stated: with three or more authors and a first author of two
\* or more tokens, the MLA formatter returns "Family, Given et al." of the
\* first author, whatever the authors at index 1 and above are.
C11_LaterAuthorsIgnored ==
    (MlaOfThreeOrMore /\ TokenCount(pub0[1].authors[1]) >= 2) =>
        /\ Returned
        /\ Text = FamilyGivenEtAl(pub0[1].authors[1])

\* C11: for a record of three or more authors, each of two or more tokens,
\* the MLA author segment is exactly "Family, Given et al." of the first
\* author, whatever the length of the list and whoever the later authors
\* are, and the MLA citation in either encoding starts with that segment
\* followed by a full stop; when any author of the list, the first or a
\* later one, has fewer than two tokens, the MLA formatter raises the
\* CitationError "Invalid author format" naming the first such author and
\* returns no string.
C11_MlaEtAl ==
    /\ MlaOfThreeOrMore =>
          IF WellFormedAuthors(pub0[1])
          THEN /\ Returned
               /\ Text = FamilyGivenEtAl(pub0[1].authors[1])
          ELSE LET authors == pub0[1].authors
                   i == CHOOSE i \in 1..Len(authors) :
                            /\ TokenCount(authors[i]) < 2
                            /\ \A j \in 1..(i - 1) : TokenCount(authors[j]) >= 2
               IN  /\ result[1].exc = "CitationError"
                   /\ result[1].msg = "Invalid author format: " \o authors[i]
                   /\ result[1].value = None
    /\ (MlaCitationOfThreeOrMore /\ WellFormedAuthors(pub0[1])) =>
          /\ Returned
          /\ StartsWith(Text, FamilyGivenEtAl(pub0[1].authors[1]) \o ". \"")

\* the MLA author segment of a list of four authors whose first author has
\* two given names
C11_Witness ==
    /\ MlaOfThreeOrMore
    /\ Len(pub0[1].authors) = 4
    /\ pub0[1].authors[1] = "Jane Q Smith"
    /\ Returned
    /\ Text = "Smith, Jane Q et al."

====
